---- MODULE Spec2Model ----
(***************************************************************************)
(* A model of the rust-ai-player core: the behavior tree                   *)
(* (src/rust-ai-player/src/ai/behavior_tree.py) and the decision engine    *)
(* (src/rust-ai-player/src/ai/decision_engine.py), and the frame loop of   *)
(* RustAIPlayer (src/rust-ai-player/src/main.py) that drives both.         *)
(*                                                                         *)
(* A node is a record holding the fields of the Python object: kind (its   *)
(* class), status, children, current_child_index and success_threshold.    *)
(* Fields a class does not have are kept at a fixed padding value (<<>>    *)
(* or 0) and are never read for that class.  A node is identified by its   *)
(* path from the root: the sequence of 0-based child indices leading to it.*)
(* The cursor current_child_index is 0-based as in the source; the k-th    *)
(* Python child children[k] is children[k + 1] here.                       *)
(***************************************************************************)
EXTENDS Integers, Sequences, FiniteSets, TLC

VARIABLES
    root,       \* BehaviorTree.root: the whole tree, with every node's fields
    preCursor,  \* history: every cursor (by path) as it was before the last operation
    op,         \* history: the last operation, [name, path]
    log,        \* history: the nodes ticked by the last operation, in order of return
    ret,        \* history: what the last BehaviorTree.tick returned ("none" otherwise)
    reticked,   \* history: the last operation ticked a child of a Parallel node that an earlier tick had left with status SUCCESS
    run,        \* history: per Sequence/Selector path, the child statuses of its current run
    tick_context,  \* history: the context handed to the last BehaviorTree.tick, where the model holds it
    current_state,     \* DecisionEngine.current_state
    health,            \* DecisionEngine.health
    hunger,            \* DecisionEngine.hunger
    inventory,         \* DecisionEngine.inventory
    nearby_threats,    \* DecisionEngine.nearby_threats
    nearby_resources,  \* DecisionEngine.nearby_resources
    called,            \* history: the DecisionEngine method called last
    returned,          \* history: what the last call returned (NoDecision: None)
    received,          \* history: the detections handed to the last update_game_state call
    carried,           \* history: per vital, the value of the last payload that held it
    previous,          \* history: the Decision of the call before, when it and the last call were both make_decision
    argument,          \* history: the threat handed to the last call (NONE: the method takes none)
    last_set           \* history: the state handed to the last set_state call

treevars == <<root, preCursor, op, log, ret, reticked, run, tick_context>>

trackervars == <<current_state, health, hunger, inventory, nearby_threats,
                 nearby_resources>>

enginevars == <<trackervars, called, returned, received, carried, previous,
                argument, last_set>>

vars == <<treevars, enginevars>>

(***************************************************************************)
(* Bounds of the model.                                                    *)
(***************************************************************************)
\* the largest number of children of a flat (one-level) composite
MaxChildren == 3
\* the largest number of detections in one perception payload
MaxDetections == 2

\* the longest inventory the decision is computed for
MaxInventory == 5

(***************************************************************************)
(* NodeStatus (behavior_tree.py:11-15)                                     *)
(***************************************************************************)
SUCCESS == "success"
FAILURE == "failure"
RUNNING == "running"
NodeStatus == {SUCCESS, FAILURE, RUNNING}

\* no value: nothing returned, not ticked
NONE == "none"

(***************************************************************************)
(* Constructors: the state of a node right after __init__.                 *)
(***************************************************************************)
\* BehaviorNode.__init__ sets status = FAILURE; ActionNode adds the action
ActionNode ==
    [kind |-> "Action", status |-> FAILURE, children |-> <<>>,
     current_child_index |-> 0, success_threshold |-> 0]

ConditionNode ==
    [kind |-> "Condition", status |-> FAILURE, children |-> <<>>,
     current_child_index |-> 0, success_threshold |-> 0]

SequenceNode(children) ==
    [kind |-> "Sequence", status |-> FAILURE, children |-> children,
     current_child_index |-> 0, success_threshold |-> 0]

SelectorNode(children) ==
    [kind |-> "Selector", status |-> FAILURE, children |-> children,
     current_child_index |-> 0, success_threshold |-> 0]

ParallelNode(children, success_threshold) ==
    [kind |-> "Parallel", status |-> FAILURE, children |-> children,
     current_child_index |-> 0, success_threshold |-> success_threshold]

IsLeaf(node) == node.kind \in {"Action", "Condition"}
IsComposite(node) == node.kind \in {"Sequence", "Selector", "Parallel"}
HasCursor(node) == node.kind \in {"Sequence", "Selector"}

(***************************************************************************)
(* Paths.                                                                  *)
(***************************************************************************)
RECURSIVE PathsFrom(_, _)
\* every node of the subtree `node`, as the path from the root, `path` being
\* the path of `node` itself
PathsFrom(node, path) ==
    {path} \cup UNION {PathsFrom(node.children[k], Append(path, k - 1)) :
                          k \in 1..Len(node.children)}

RECURSIVE NodeAt(_, _)
NodeAt(node, path) ==
    IF path = <<>> THEN node
    ELSE NodeAt(node.children[Head(path) + 1], Tail(path))

Paths(tree) == PathsFrom(tree, <<>>)
ActionPaths(tree) == {p \in Paths(tree) : NodeAt(tree, p).kind = "Action"}
ConditionPaths(tree) == {p \in Paths(tree) : NodeAt(tree, p).kind = "Condition"}
CompositePaths(tree) == {p \in Paths(tree) : IsComposite(NodeAt(tree, p))}
CursorPaths(tree) == {p \in Paths(tree) : HasCursor(NodeAt(tree, p))}

IsPrefix(p, q) == Len(p) <= Len(q) /\ SubSeq(q, 1, Len(p)) = p
IsChildPath(p, q) == Len(q) = Len(p) + 1 /\ IsPrefix(p, q)

(***************************************************************************)
(* tick.  What an injected action or condition returns depends on the      *)
(* context and on the world, which the model does not hold: a leaf's tick  *)
(* may return any value its callable can return.  So the tick of a node is *)
(* the SET of its possible outcomes, each [node: the node after the tick,  *)
(* status: what tick returned, log: the nodes ticked, each with what it    *)
(* returned, in order of return].                                          *)
(***************************************************************************)
Ticked(node, status, path, sublog) ==
    [node |-> node, status |-> status,
     log |-> Append(sublog, [path |-> path, status |-> status])]

\* ActionNode.tick: self.status = self.action(context)
ActionTick(node, path) ==
    {Ticked([node EXCEPT !.status = status], status, path, <<>>) :
        status \in NodeStatus}

\* the status ConditionNode.tick makes of the condition's result
ConditionStatus(result) == IF result THEN SUCCESS ELSE FAILURE

\* ConditionNode.tick: result = self.condition(context)
ConditionTick(node, path) ==
    {Ticked([node EXCEPT !.status = ConditionStatus(result)],
            ConditionStatus(result), path, <<>>) : result \in BOOLEAN}

RECURSIVE TickNode(_, _)
RECURSIVE SequenceLoop(_, _, _)
RECURSIVE SelectorLoop(_, _, _)
RECURSIVE ParallelLoop(_, _, _, _)

\* mutant: a failed attempt keeps its cursor instead of starting over
SequenceChildFailure_KeepsCursor(node, path, sublog) ==
    Ticked([node EXCEPT !.status = FAILURE], FAILURE, path, sublog)

\* mutant: a failed attempt steps back to retry the child before
SequenceChildFailure_StepsBack(node, path, sublog) ==
    Ticked([node EXCEPT !.current_child_index = @ - 1, !.status = FAILURE],
           FAILURE, path, sublog)

\* SequenceNode.tick, child returned FAILURE
SequenceChildFailure(node, path, sublog) ==
    Ticked([node EXCEPT !.current_child_index = 0, !.status = FAILURE],
           FAILURE, path, sublog)

\* mutant: a Running child does not park the cursor
SequenceChildRunning_ResetsCursor(node, path, sublog) ==
    Ticked([node EXCEPT !.current_child_index = 0, !.status = RUNNING],
           RUNNING, path, sublog)

\* SequenceNode.tick, child returned RUNNING
SequenceChildRunning(node, path, sublog) ==
    Ticked([node EXCEPT !.status = RUNNING], RUNNING, path, sublog)

\* mutant: a successful child makes the sequence skip the child after it
SequenceChildSuccess_SkipsChild(node) ==
    [node EXCEPT !.current_child_index = @ + 2]

\* SequenceNode.tick, child returned SUCCESS: move to next child
SequenceChildSuccess(node) ==
    [node EXCEPT !.current_child_index = @ + 1]

\* mutant: a sequence that succeeded leaves its cursor past the last child
SequenceAllSucceeded_KeepsCursor(node, path, sublog) ==
    Ticked([node EXCEPT !.status = SUCCESS], SUCCESS, path, sublog)

\* SequenceNode.tick, the while loop is over: all children succeeded
SequenceAllSucceeded(node, path, sublog) ==
    Ticked([node EXCEPT !.current_child_index = 0, !.status = SUCCESS],
           SUCCESS, path, sublog)

\* SequenceNode.tick: the while loop, `sublog` being the ticks made so far
SequenceLoop(node, path, sublog) ==
    IF node.current_child_index < Len(node.children)
    THEN LET i == node.current_child_index
         IN UNION {
              LET n == [node EXCEPT !.children[i + 1] = r.node]
                  l == sublog \o r.log
              IN CASE r.status = FAILURE -> {SequenceChildFailure(n, path, l)}
                   [] r.status = RUNNING -> {SequenceChildRunning(n, path, l)}
                   [] OTHER -> SequenceLoop(SequenceChildSuccess(n), path, l)
              : r \in TickNode(node.children[i + 1], Append(path, i))}
    ELSE {SequenceAllSucceeded(node, path, sublog)}

\* mutant: every tick starts over at child 0, whatever the stored cursor
SequenceTick_FromZero(node, path) ==
    SequenceLoop([node EXCEPT !.current_child_index = 0], path, <<>>)

SequenceTick(node, path) == SequenceLoop(node, path, <<>>)

\* mutant: a success leaves the cursor on the child that succeeded
SelectorChildSuccess_KeepsCursor(node, path, sublog) ==
    Ticked([node EXCEPT !.status = SUCCESS], SUCCESS, path, sublog)

\* SelectorNode.tick, child returned SUCCESS
SelectorChildSuccess(node, path, sublog) ==
    Ticked([node EXCEPT !.current_child_index = 0, !.status = SUCCESS],
           SUCCESS, path, sublog)

\* mutant: a Running child does not park the cursor
SelectorChildRunning_ResetsCursor(node, path, sublog) ==
    Ticked([node EXCEPT !.current_child_index = 0, !.status = RUNNING],
           RUNNING, path, sublog)

\* SelectorNode.tick, child returned RUNNING
SelectorChildRunning(node, path, sublog) ==
    Ticked([node EXCEPT !.status = RUNNING], RUNNING, path, sublog)

\* SelectorNode.tick, child returned FAILURE: move to next child
SelectorChildFailure(node) ==
    [node EXCEPT !.current_child_index = @ + 1]

\* SelectorNode.tick, the while loop is over: all children failed
SelectorAllFailed(node, path, sublog) ==
    Ticked([node EXCEPT !.current_child_index = 0, !.status = FAILURE],
           FAILURE, path, sublog)

\* SelectorNode.tick: the while loop
SelectorLoop(node, path, sublog) ==
    IF node.current_child_index < Len(node.children)
    THEN LET i == node.current_child_index
         IN UNION {
              LET n == [node EXCEPT !.children[i + 1] = r.node]
                  l == sublog \o r.log
              IN CASE r.status = SUCCESS -> {SelectorChildSuccess(n, path, l)}
                   [] r.status = RUNNING -> {SelectorChildRunning(n, path, l)}
                   [] OTHER -> SelectorLoop(SelectorChildFailure(n), path, l)
              : r \in TickNode(node.children[i + 1], Append(path, i))}
    ELSE {SelectorAllFailed(node, path, sublog)}

SelectorTick(node, path) == SelectorLoop(node, path, <<>>)

\* ParallelNode.tick, the tally of one child's status
ParallelCount(counts, status) ==
    CASE status = SUCCESS -> [counts EXCEPT !.success_count = @ + 1]
      [] status = FAILURE -> [counts EXCEPT !.failure_count = @ + 1]
      [] OTHER -> [counts EXCEPT !.running_count = @ + 1]

\* mutant: the children still Running are not counted as possible successes
ParallelDecide_RunningCannotSucceed(counts, nchildren, success_threshold) ==
    IF counts.success_count >= success_threshold THEN SUCCESS
    ELSE LET remaining == nchildren - counts.failure_count - counts.running_count
         IN IF remaining < success_threshold THEN FAILURE ELSE RUNNING

\* mutant: the node fails only once every child has failed
ParallelDecide_FailsWhenAllFail(counts, nchildren, success_threshold) ==
    IF counts.success_count >= success_threshold THEN SUCCESS
    ELSE IF counts.failure_count = nchildren THEN FAILURE ELSE RUNNING

\* mutant: a success needs at least one child that succeeded
ParallelDecide_NeedsASuccess(counts, nchildren, success_threshold) ==
    IF counts.success_count >= success_threshold /\ counts.success_count >= 1
    THEN SUCCESS
    ELSE LET remaining == nchildren - counts.failure_count
         IN IF remaining < success_threshold THEN FAILURE ELSE RUNNING

\* ParallelNode.tick, the decision once every child was ticked
ParallelDecide(counts, nchildren, success_threshold) ==
    IF counts.success_count >= success_threshold THEN SUCCESS
    ELSE LET remaining == nchildren - counts.failure_count
         IN IF remaining < success_threshold THEN FAILURE ELSE RUNNING

RECURSIVE ParallelLoop_ShortCircuit(_, _, _, _)
\* mutant: the loop stops as soon as the threshold is reached
ParallelLoop_ShortCircuit(node, path, k, acc) ==
    IF k <= Len(node.children) /\ acc.counts.success_count < node.success_threshold
    THEN UNION {
           ParallelLoop_ShortCircuit([node EXCEPT !.children[k] = r.node], path, k + 1,
                        [counts |-> ParallelCount(acc.counts, r.status),
                         log |-> acc.log \o r.log])
           : r \in TickNode(node.children[k], Append(path, k - 1))}
    ELSE LET status == ParallelDecide(acc.counts, Len(node.children),
                                      node.success_threshold)
         IN {Ticked([node EXCEPT !.status = status], status, path, acc.log)}

\* ParallelNode.tick: the for loop, k the 1-based position of the next child,
\* acc the counts and the ticks made so far
ParallelLoop(node, path, k, acc) ==
    IF k <= Len(node.children)
    THEN UNION {
           ParallelLoop([node EXCEPT !.children[k] = r.node], path, k + 1,
                        [counts |-> ParallelCount(acc.counts, r.status),
                         log |-> acc.log \o r.log])
           : r \in TickNode(node.children[k], Append(path, k - 1))}
    ELSE LET status == ParallelDecide(acc.counts, Len(node.children),
                                      node.success_threshold)
         IN {Ticked([node EXCEPT !.status = status], status, path, acc.log)}

ParallelTick(node, path) ==
    ParallelLoop(node, path, 1,
                 [counts |-> [success_count |-> 0, failure_count |-> 0,
                              running_count |-> 0],
                  log |-> <<>>])

\* node.tick(context): dynamic dispatch on the node's class
TickNode(node, path) ==
    CASE node.kind = "Action" -> ActionTick(node, path)
      [] node.kind = "Condition" -> ConditionTick(node, path)
      [] node.kind = "Sequence" -> SequenceTick(node, path)
      [] node.kind = "Selector" -> SelectorTick(node, path)
      [] node.kind = "Parallel" -> ParallelTick(node, path)

(***************************************************************************)
(* reset.                                                                  *)
(***************************************************************************)
RECURSIVE ResetNode(_)

\* BehaviorNode.reset (lines 44-46)
BaseReset(node) == [node EXCEPT !.status = FAILURE]

\* mutant: the children are reset by BehaviorNode.reset, which does not cascade
ResetChildren_Shallow(node) ==
    [node EXCEPT !.children = [k \in 1..Len(node.children) |-> BaseReset(node.children[k])]]

\* the for loop of a composite's reset: child.reset() for every child
ResetChildren(node) ==
    [node EXCEPT !.children = [k \in 1..Len(node.children) |-> ResetNode(node.children[k])]]

\* SequenceNode.reset (lines 136-141)
SequenceReset(node) ==
    ResetChildren([BaseReset(node) EXCEPT !.current_child_index = 0])

\* mutant: reset leaves the cursor of the selector where it was parked
SelectorReset_KeepsCursor(node) == ResetChildren(BaseReset(node))

\* SelectorNode.reset (lines 190-195)
SelectorReset(node) ==
    ResetChildren([BaseReset(node) EXCEPT !.current_child_index = 0])

\* ParallelNode.reset (lines 254-258)
ParallelReset(node) == ResetChildren(BaseReset(node))

\* node.reset(): dynamic dispatch on the node's class
ResetNode(node) ==
    CASE node.kind = "Sequence" -> SequenceReset(node)
      [] node.kind = "Selector" -> SelectorReset(node)
      [] node.kind = "Parallel" -> ParallelReset(node)
      [] OTHER -> BaseReset(node)

RECURSIVE ReplaceAt(_, _, _)
\* the tree `node` with the subtree at `path` replaced by `sub`
ReplaceAt(node, path, sub) ==
    IF path = <<>> THEN sub
    ELSE [node EXCEPT !.children[Head(path) + 1] =
              ReplaceAt(node.children[Head(path) + 1], Tail(path), sub)]

(***************************************************************************)
(* The decision engine (decision_engine.py).                               *)
(***************************************************************************)
\* Priority
CRITICAL == 5
HIGH == 4
MEDIUM == 3
LOW == 2
MINIMAL == 1

\* GameState.IDLE
IDLE == "idle"

\* Decision.__init__
Decision(action, priority, context) ==
    [action |-> action, priority |-> priority, context |-> context]

\* the return value None
NoDecision == [action |-> NONE]

\* mutant: a key the dict lacks reads as the value the engine was constructed with
Get_ConstructedDefault(vision_data, key, default) ==
    IF key \in DOMAIN vision_data THEN vision_data[key]
    ELSE IF key = "detections" THEN default ELSE 100

\* dict.get(key, default): a dict is a record of the keys it holds
Get(vision_data, key, default) ==
    IF key \in DOMAIN vision_data THEN vision_data[key] ELSE default

\* update_game_state: the class names that make a detection a threat
ThreatClasses == {"player", "bear", "wolf", "scientist"}

\* update_game_state: the class names that make a detection a resource
ResourceClasses == {"tree", "stone", "ore", "hemp", "crate"}

\* mutant: the threats found are appended to the list kept from earlier calls
ThreatsOf_Appends(detections) ==
    nearby_threats \o SelectSeq(detections, LAMBDA d : d.class_name \in ThreatClasses)

\* update_game_state: the new nearby_threats
ThreatsOf(detections) ==
    SelectSeq(detections, LAMBDA d : d.class_name \in ThreatClasses)

\* update_game_state: the new nearby_resources
ResourcesOf(detections) ==
    SelectSeq(detections, LAMBDA d : d.class_name \in ResourceClasses)

\* _select_best_resource: priority_order
priority_order == <<"ore", "stone", "tree", "hemp", "crate">>

\* mutant: the resource listed first is taken, whatever its class
select_best_resource_FirstListed ==
    IF nearby_resources = <<>> THEN NONE ELSE nearby_resources[1]

\* _select_best_resource
select_best_resource ==
    IF nearby_resources = <<>> THEN NONE
    ELSE LET hit(t) == {j \in 1..Len(nearby_resources) :
                            nearby_resources[j].class_name = priority_order[t]}
             types == {t \in 1..Len(priority_order) : hit(t) # {}}
             Min(S) == CHOOSE x \in S : \A y \in S : x <= y
         IN IF types # {} THEN nearby_resources[Min(hit(Min(types)))]
            ELSE nearby_resources[1]

\* mutant: the threat rule is tried before the health rule
make_decision_ThreatsFirst ==
    IF nearby_threats # <<>>
    THEN LET threat == nearby_threats[1]
         IN IF health < 50
            THEN Decision("flee", CRITICAL, [threat |-> threat])
            ELSE Decision("combat", HIGH, [threat |-> threat])
    ELSE IF health < 20
    THEN Decision("heal", CRITICAL, [health |-> health])
    ELSE IF hunger < 30
    THEN Decision("find_food", HIGH, [hunger |-> hunger])
    ELSE IF nearby_resources # <<>>
    THEN Decision("gather_resource", MEDIUM, [resource |-> select_best_resource])
    ELSE IF Len(inventory) < 5
    THEN Decision("explore", LOW, [goal |-> "find_resources"])
    ELSE Decision("explore", MINIMAL, [goal |-> "general_exploration"])

\* mutant: an inventory of exactly five entries still counts as short
make_decision_FiveIsFew ==
    IF health < 20
    THEN Decision("heal", CRITICAL, [health |-> health])
    ELSE IF nearby_threats # <<>>
    THEN LET threat == nearby_threats[1]
         IN IF health < 50
            THEN Decision("flee", CRITICAL, [threat |-> threat])
            ELSE Decision("combat", HIGH, [threat |-> threat])
    ELSE IF hunger < 30
    THEN Decision("find_food", HIGH, [hunger |-> hunger])
    ELSE IF nearby_resources # <<>>
    THEN Decision("gather_resource", MEDIUM, [resource |-> select_best_resource])
    ELSE IF Len(inventory) <= 5
    THEN Decision("explore", LOW, [goal |-> "find_resources"])
    ELSE Decision("explore", MINIMAL, [goal |-> "general_exploration"])

\* mutant: the hunger rule is tried before the threat rule
make_decision_FoodFirst ==
    IF health < 20
    THEN Decision("heal", CRITICAL, [health |-> health])
    ELSE IF hunger < 30
    THEN Decision("find_food", HIGH, [hunger |-> hunger])
    ELSE IF nearby_threats # <<>>
    THEN LET threat == nearby_threats[1]
         IN IF health < 50
            THEN Decision("flee", CRITICAL, [threat |-> threat])
            ELSE Decision("combat", HIGH, [threat |-> threat])
    ELSE IF nearby_resources # <<>>
    THEN Decision("gather_resource", MEDIUM, [resource |-> select_best_resource])
    ELSE IF Len(inventory) < 5
    THEN Decision("explore", LOW, [goal |-> "find_resources"])
    ELSE Decision("explore", MINIMAL, [goal |-> "general_exploration"])

\* mutant: the threat rule answers with the last threat of the list
make_decision_LastThreat ==
    IF health < 20
    THEN Decision("heal", CRITICAL, [health |-> health])
    ELSE IF nearby_threats # <<>>
    THEN LET threat == nearby_threats[Len(nearby_threats)]
         IN IF health < 50
            THEN Decision("flee", CRITICAL, [threat |-> threat])
            ELSE Decision("combat", HIGH, [threat |-> threat])
    ELSE IF hunger < 30
    THEN Decision("find_food", HIGH, [hunger |-> hunger])
    ELSE IF nearby_resources # <<>>
    THEN Decision("gather_resource", MEDIUM, [resource |-> select_best_resource])
    ELSE IF Len(inventory) < 5
    THEN Decision("explore", LOW, [goal |-> "find_resources"])
    ELSE Decision("explore", MINIMAL, [goal |-> "general_exploration"])

\* mutant: the resources in sight are looked at before the hunger
make_decision_ResourcesFirst ==
    IF health < 20
    THEN Decision("heal", CRITICAL, [health |-> health])
    ELSE IF nearby_threats # <<>>
    THEN LET threat == nearby_threats[1]
         IN IF health < 50
            THEN Decision("flee", CRITICAL, [threat |-> threat])
            ELSE Decision("combat", HIGH, [threat |-> threat])
    ELSE IF nearby_resources # <<>>
    THEN Decision("gather_resource", MEDIUM, [resource |-> select_best_resource])
    ELSE IF hunger < 30
    THEN Decision("find_food", HIGH, [hunger |-> hunger])
    ELSE IF Len(inventory) < 5
    THEN Decision("explore", LOW, [goal |-> "find_resources"])
    ELSE Decision("explore", MINIMAL, [goal |-> "general_exploration"])

\* make_decision: the Decision it returns in the current state
make_decision ==
    IF health < 20
    THEN Decision("heal", CRITICAL, [health |-> health])
    ELSE IF nearby_threats # <<>>
    THEN LET threat == nearby_threats[1]
         IN IF health < 50
            THEN Decision("flee", CRITICAL, [threat |-> threat])
            ELSE Decision("combat", HIGH, [threat |-> threat])
    ELSE IF hunger < 30
    THEN Decision("find_food", HIGH, [hunger |-> hunger])
    ELSE IF nearby_resources # <<>>
    THEN Decision("gather_resource", MEDIUM, [resource |-> select_best_resource])
    ELSE IF Len(inventory) < 5
    THEN Decision("explore", LOW, [goal |-> "find_resources"])
    ELSE Decision("explore", MINIMAL, [goal |-> "general_exploration"])

\* GameState: the values of the enumeration
GameState == {"exploring", "gathering", "building", "combat", "fleeing",
              "looting", "crafting", IDLE}

(***************************************************************************)
(* evaluate_threat_level computes in floating point.  The model computes   *)
(* the same expression exactly, in fixed point: a rating is in hundredths, *)
(* distance_factor in ten-thousandths (size / 10000 is size of them) and   *)
(* a threat level in millionths, so that 1.0 is 1000000, 0.8 is 800000     *)
(* and 0.7 is 700000.                                                      *)
(***************************************************************************)
\* mutant: the wolf is rated 0.6
threat_ratings_WolfSixty ==
    [player |-> 90, bear |-> 95, wolf |-> 60, scientist |-> 85, boar |-> 30]

\* evaluate_threat_level: threat_ratings, in hundredths
threat_ratings ==
    [player |-> 90, bear |-> 95, wolf |-> 70, scientist |-> 85, boar |-> 30]

\* min(a, b)
min(a, b) == IF a <= b THEN a ELSE b

\* evaluate_threat_level(threat), in millionths
evaluate_threat_level(threat) ==
    LET base_threat == IF threat.class_name \in DOMAIN threat_ratings
                       THEN threat_ratings[threat.class_name] ELSE 50
        bbox == threat.bbox
        size == (bbox[3] - bbox[1]) * (bbox[4] - bbox[2])
        distance_factor == min(10000, size)
    IN min(1000000, base_threat * (10000 + distance_factor))

\* mutant: a health of exactly 60 is good enough to engage
should_engage_combat_SixtyEngages(threat) ==
    LET threat_level == evaluate_threat_level(threat)
    IN IF health < 40 THEN FALSE
       ELSE IF threat_level > 800000 /\ health < 70 THEN FALSE
       ELSE health >= 60 /\ threat_level < 700000

\* should_engage_combat(threat)
should_engage_combat(threat) ==
    LET threat_level == evaluate_threat_level(threat)
    IN IF health < 40 THEN FALSE
       ELSE IF threat_level > 800000 /\ health < 70 THEN FALSE
       ELSE health > 60 /\ threat_level < 700000

\* calculate_flee_direction(threat)
calculate_flee_direction(threat) ==
    LET center_x == threat.center[1]
    IN IF center_x < 960 THEN "right" ELSE "left"

\* DecisionEngine.__init__
EngineConstructed ==
    /\ current_state = IDLE
    /\ health = 100
    /\ hunger = 100
    /\ inventory = <<>>
    /\ nearby_threats = <<>>
    /\ nearby_resources = <<>>
    /\ called = "__init__"
    /\ returned = NoDecision
    /\ received = <<>>
    /\ carried = [health |-> 100, hunger |-> 100]
    /\ previous = NoDecision
    /\ argument = NONE
    /\ last_set = IDLE

(***************************************************************************)
(* The perception payloads the engine is fed: up to MaxDetections          *)
(* detections of two threat classes, two resource classes and one class    *)
(* that is neither (boar is rated by evaluate_threat_level only); health   *)
(* and hunger, each absent or on either side of each threshold             *)
(* make_decision compares with.  SpecPerception below feeds every class.   *)
(***************************************************************************)
ClassNames == {"wolf", "bear", "ore", "tree", "boar"}
BBoxes == {<<0, 0, 10, 10>>}
Detections == [class_name : ClassNames, bbox : BBoxes]
HealthValues == {19, 20, 49, 50}
HungerValues == {29, 30}
DetectionLists == UNION {[1..n -> Detections] : n \in 0..MaxDetections}
Payloads ==
    [detections : DetectionLists]
    \cup [detections : DetectionLists, health : HealthValues]
    \cup [detections : DetectionLists, hunger : HungerValues]
    \cup [detections : DetectionLists, health : HealthValues, hunger : HungerValues]

\* mutant: every detection of the payload is put into the inventory
update_tracker_StoresDetections(vision_data) ==
    LET detections == Get(vision_data, "detections", <<>>)
    IN /\ nearby_threats' = ThreatsOf(detections)
       /\ nearby_resources' = ResourcesOf(detections)
       /\ health' = Get(vision_data, "health", health)
       /\ hunger' = Get(vision_data, "hunger", hunger)
       /\ received' = detections
       /\ carried' = [health |-> IF "health" \in DOMAIN vision_data
                                  THEN vision_data.health ELSE carried.health,
                      hunger |-> IF "hunger" \in DOMAIN vision_data
                                  THEN vision_data.hunger ELSE carried.hunger]
       /\ inventory' = inventory \o detections
       /\ UNCHANGED <<current_state, last_set>>

\* update_game_state(vision_data): what it does to the engine, and the history
\* of the payload
update_tracker(vision_data) ==
    LET detections == Get(vision_data, "detections", <<>>)
    IN /\ nearby_threats' = ThreatsOf(detections)
       /\ nearby_resources' = ResourcesOf(detections)
       /\ health' = Get(vision_data, "health", health)
       /\ hunger' = Get(vision_data, "hunger", hunger)
       /\ received' = detections
       /\ carried' = [health |-> IF "health" \in DOMAIN vision_data
                                  THEN vision_data.health ELSE carried.health,
                      hunger |-> IF "hunger" \in DOMAIN vision_data
                                  THEN vision_data.hunger ELSE carried.hunger]
       /\ UNCHANGED <<current_state, inventory, last_set>>

\* update_game_state(vision_data), called on its own
update_game_state(vision_data) ==
    /\ update_tracker(vision_data)
    /\ called' = "update_game_state"
    /\ returned' = NoDecision
    /\ previous' = NoDecision
    /\ argument' = NONE
    /\ UNCHANGED treevars

\* update_game_state with any of the payloads
UpdateGameState == \E vision_data \in Payloads : update_game_state(vision_data)

(***************************************************************************)
(* The payloads of SpecPerception: up to MaxDetections detections of any   *)
(* of the nine classes update_game_state knows and of two it does not,     *)
(* with a second, larger ore so that two entries of one class differ; no   *)
(* health or hunger key, as in main.py's process_frame.                    *)
(***************************************************************************)
AllClassNames == ThreatClasses \cup ResourceClasses \cup {"boar", "deer"}
PerceptionDetections ==
    [class_name : AllClassNames, bbox : BBoxes]
    \cup {[class_name |-> "ore", bbox |-> <<0, 0, 200, 200>>]}
PerceptionLists == UNION {[1..n -> PerceptionDetections] : n \in 0..MaxDetections}
PerceptionPayloads == [detections : PerceptionLists]

\* update_game_state with any of the payloads of SpecPerception
UpdatePerception ==
    \E vision_data \in PerceptionPayloads : update_game_state(vision_data)

\* mutant: the threat the decision answers is taken off nearby_threats
MakeDecision_ConsumesThreat ==
    /\ returned' = make_decision
    /\ called' = "make_decision"
    /\ previous' = IF called = "make_decision" THEN returned ELSE NoDecision
    /\ argument' = NONE
    /\ nearby_threats' = IF nearby_threats = <<>> THEN <<>> ELSE Tail(nearby_threats)
    /\ UNCHANGED <<current_state, health, hunger, inventory, nearby_resources>>
    /\ UNCHANGED <<received, carried, last_set>>
    /\ UNCHANGED treevars

\* mutant: the engine enters the state that goes with the action it decided
MakeDecision_EntersState ==
    /\ returned' = make_decision
    /\ called' = "make_decision"
    /\ previous' = IF called = "make_decision" THEN returned ELSE NoDecision
    /\ argument' = NONE
    /\ current_state' = IF make_decision.action = "combat" THEN "combat"
                        ELSE IF make_decision.action = "flee" THEN "fleeing"
                        ELSE "exploring"
    /\ UNCHANGED <<health, hunger, inventory, nearby_threats, nearby_resources>>
    /\ UNCHANGED <<received, carried, last_set>>
    /\ UNCHANGED treevars

\* make_decision()
MakeDecision ==
    /\ returned' = make_decision
    /\ called' = "make_decision"
    /\ previous' = IF called = "make_decision" THEN returned ELSE NoDecision
    /\ argument' = NONE
    /\ UNCHANGED trackervars
    /\ UNCHANGED <<received, carried, last_set>>
    /\ UNCHANGED treevars

(***************************************************************************)
(* The trees the model is run on.  The source builds trees of any shape    *)
(* (the constructors take any list of children, add_child appends); the    *)
(* model draws the tree from: every flat composite of up to MaxChildren    *)
(* leaves, every two-level tree of two children that are an action leaf or *)
(* a composite of two action leaves, and the three-level trees that hold   *)
(* such a two-level tree and an action leaf.                               *)
(***************************************************************************)
Leaves == {ActionNode, ConditionNode}

\* the values of success_threshold: below, within and above the child count
Thresholds == (0 - 1)..(MaxChildren + 1)

FlatTrees ==
    LET cs == UNION {[1..n -> Leaves] : n \in 0..MaxChildren}
    IN {SequenceNode(c) : c \in cs} \cup {SelectorNode(c) : c \in cs}
       \cup {ParallelNode(c, t) : c \in cs, t \in Thresholds}

\* a composite of each class over the children c
CompositesOver(c) ==
    {SequenceNode(c), SelectorNode(c), ParallelNode(c, 1)}

InnerTrees == CompositesOver(<<ActionNode, ActionNode>>)

TwoLevelTrees ==
    UNION {CompositesOver(c) : c \in [1..2 -> {ActionNode} \cup InnerTrees]}

ThreeLevelTrees ==
    UNION {CompositesOver(<<t, ActionNode>>) :
              t \in UNION {CompositesOver(<<i, ActionNode>>) : i \in InnerTrees}}

InitialTrees == FlatTrees \cup TwoLevelTrees \cup ThreeLevelTrees

(***************************************************************************)
(* History kept for the properties.                                        *)
(***************************************************************************)
CursorsOf(tree) == [p \in CursorPaths(tree) |-> NodeAt(tree, p).current_child_index]

FreshRun(tree) ==
    [p \in CursorPaths(tree) |-> [k \in 1..Len(NodeAt(tree, p).children) |-> NONE]]

LogPaths(l) == {l[j].path : j \in 1..Len(l)}

\* what the node at path q returned in the ticks logged in l (NONE: not ticked)
LoggedStatus(l, q) ==
    IF q \in LogPaths(l)
    THEN l[CHOOSE j \in 1..Len(l) : l[j].path = q].status
    ELSE NONE

\* the run of the cursor node at p after a tick that logged l: a tick that
\* starts at cursor 0 starts a new run, and every child ticked is recorded
RunAfterTick(tree, oldrun, l, p) ==
    IF p \notin LogPaths(l) THEN oldrun[p]
    ELSE LET base == IF NodeAt(tree, p).current_child_index = 0
                     THEN [k \in 1..Len(NodeAt(tree, p).children) |-> NONE]
                     ELSE oldrun[p]
         IN [k \in 1..Len(base) |->
                IF Append(p, k - 1) \in LogPaths(l)
                THEN LoggedStatus(l, Append(p, k - 1)) ELSE base[k]]

(***************************************************************************)
(* The behavior tree as a state machine.                                   *)
(***************************************************************************)
InitTree ==
    /\ EngineConstructed
    /\ root \in InitialTrees
    /\ preCursor = CursorsOf(root)
    /\ op = [name |-> "init", path |-> <<>>]
    /\ log = <<>>
    /\ reticked = FALSE
    /\ ret = NONE
    /\ run = FreshRun(root)
    /\ tick_context = NONE

\* BehaviorTree.tick: the tree and the history after the root's tick had outcome r
TickOutcome(r) ==
    /\ root' = r.node
    /\ ret' = r.status
    /\ log' = r.log
    /\ reticked' = \E q \in LogPaths(r.log) :
                       /\ q # <<>>
                       /\ NodeAt(root, SubSeq(q, 1, Len(q) - 1)).kind = "Parallel"
                       /\ NodeAt(root, q).status = SUCCESS
    /\ preCursor' = CursorsOf(root)
    /\ op' = [name |-> "tick", path |-> <<>>]
    /\ run' = [p \in CursorPaths(root) |-> RunAfterTick(root, run, r.log, p)]

\* BehaviorTree.tick(context), the leaves returning whatever they may
Tick ==
    \E r \in TickNode(root, <<>>) :
        /\ TickOutcome(r)
        /\ tick_context' = NONE
        /\ UNCHANGED enginevars

\* reset() of the node at path p
ResetAt(p) ==
    /\ root' = ReplaceAt(root, p, ResetNode(NodeAt(root, p)))
    /\ ret' = NONE
    /\ log' = <<>>
    /\ reticked' = FALSE
    /\ preCursor' = CursorsOf(root)
    /\ op' = [name |-> "reset", path |-> p]
    /\ tick_context' = NONE
    /\ run' = [q \in CursorPaths(root) |->
                  IF IsPrefix(p, q) THEN FreshRun(root)[q] ELSE run[q]]
    /\ UNCHANGED enginevars

\* reset() of any composite of the tree; BehaviorTree.reset (lines 285-287) is p = <<>>
Reset == \E p \in CompositePaths(root) : ResetAt(p)

\* BehaviorTree.reset()
ResetRoot == ResetAt(<<>>)

NextTree == Tick \/ Reset

\* the behavior tree under any sequence of tick and reset calls
Spec == InitTree /\ [][NextTree]_vars

\* the engine alone: the tree is a single action leaf nobody ticks
InitEngine ==
    /\ EngineConstructed
    /\ root = ActionNode
    /\ preCursor = CursorsOf(root)
    /\ op = [name |-> "init", path |-> <<>>]
    /\ log = <<>>
    /\ reticked = FALSE
    /\ ret = NONE
    /\ run = FreshRun(root)
    /\ tick_context = NONE

NextEngine == UpdateGameState \/ MakeDecision

\* the decision engine under any sequence of update_game_state and make_decision calls
SpecEngine == InitEngine /\ [][NextEngine]_vars

(***************************************************************************)
(* make_decision as a function of the tracker.  No method of the engine    *)
(* writes inventory, a public attribute (line 66) left to the caller, so   *)
(* the tracker make_decision is applied to is drawn here: the vitals and   *)
(* the lists as some payload leaves them, and an inventory of up to        *)
(* MaxInventory entries.                                                   *)
(***************************************************************************)
Inventories == UNION {[1..n -> {"item"}] : n \in 0..MaxInventory}

InitDecision ==
    /\ \E detections \in DetectionLists :
           /\ nearby_threats = ThreatsOf(detections)
           /\ nearby_resources = ResourcesOf(detections)
           /\ received = detections
    /\ health \in HealthValues \cup {100}
    /\ hunger \in HungerValues \cup {100}
    /\ inventory \in Inventories
    /\ current_state = IDLE
    /\ called = "__init__"
    /\ returned = NoDecision
    /\ carried = [health |-> health, hunger |-> hunger]
    /\ previous = NoDecision
    /\ argument = NONE
    /\ last_set = IDLE
    /\ root = ActionNode
    /\ preCursor = CursorsOf(root)
    /\ op = [name |-> "init", path |-> <<>>]
    /\ log = <<>>
    /\ reticked = FALSE
    /\ ret = NONE
    /\ run = FreshRun(root)
    /\ tick_context = NONE

\* make_decision applied, any number of times, to a tracker of any content
SpecDecision == InitDecision /\ [][MakeDecision]_vars

NextPerception == UpdatePerception \/ MakeDecision

(***************************************************************************)
(* The engine with all its methods.  The threats handed to the three       *)
(* threat methods are detections as the detector builds them (class_name,  *)
(* bbox, center of the bbox): the five rated classes and an unrated one,   *)
(* with boxes of area 0, 5000, 6000, 10000 and 40000, the last one on the  *)
(* right half of a 1920 wide frame, and a box whose corners are given in   *)
(* the reverse order.  The payloads hold health on either side of 40, 60   *)
(* and 70, and no detection or one wolf.                                   *)
(***************************************************************************)
QueryClasses == {"player", "bear", "wolf", "scientist", "boar", "deer"}
QueryBBoxes == {<<0, 0, 0, 0>>, <<0, 0, 50, 100>>, <<0, 0, 60, 100>>,
                <<0, 0, 100, 100>>, <<1000, 0, 1200, 200>>, <<200, 0, 0, 200>>}

\* ObjectDetector._get_bbox_center
get_bbox_center(bbox) == <<(bbox[1] + bbox[3]) \div 2, (bbox[2] + bbox[4]) \div 2>>

QueryThreats ==
    {[class_name |-> c, bbox |-> b, center |-> get_bbox_center(b)] :
        c \in QueryClasses, b \in QueryBBoxes}
QueryHealthValues == {39, 40, 60, 61, 69, 70}
QueryLists == {<<>>, <<[class_name |-> "wolf", bbox |-> <<0, 0, 10, 10>>]>>}
QueryPayloads ==
    [detections : QueryLists] \cup [detections : QueryLists, health : QueryHealthValues]

\* update_game_state with any of the payloads of SpecQueries
UpdateQueries == \E vision_data \in QueryPayloads : update_game_state(vision_data)

\* a method that takes a threat and only computes a value from it
Query(method, threat, value) ==
    /\ called' = method
    /\ argument' = threat
    /\ returned' = [value |-> value]
    /\ previous' = NoDecision
    /\ UNCHANGED trackervars
    /\ UNCHANGED <<received, carried, last_set>>
    /\ UNCHANGED treevars

\* evaluate_threat_level(threat)
EvaluateThreatLevel ==
    \E threat \in QueryThreats :
        Query("evaluate_threat_level", threat, evaluate_threat_level(threat))

\* should_engage_combat(threat)
ShouldEngageCombat ==
    \E threat \in QueryThreats :
        Query("should_engage_combat", threat, should_engage_combat(threat))

\* calculate_flee_direction(threat)
CalculateFleeDirection ==
    \E threat \in QueryThreats :
        Query("calculate_flee_direction", threat, calculate_flee_direction(threat))

\* set_state(state)
SetState ==
    \E state \in GameState :
        /\ current_state' = state
        /\ last_set' = state
        /\ called' = "set_state"
        /\ returned' = NoDecision
        /\ previous' = NoDecision
        /\ argument' = NONE
        /\ UNCHANGED <<health, hunger, inventory, nearby_threats, nearby_resources>>
        /\ UNCHANGED <<received, carried>>
        /\ UNCHANGED treevars

\* get_state()
GetState ==
    /\ returned' = [value |-> current_state]
    /\ called' = "get_state"
    /\ previous' = NoDecision
    /\ argument' = NONE
    /\ UNCHANGED trackervars
    /\ UNCHANGED <<received, carried, last_set>>
    /\ UNCHANGED treevars

NextQueries ==
    \/ UpdateQueries
    \/ MakeDecision
    \/ EvaluateThreatLevel
    \/ ShouldEngageCombat
    \/ CalculateFleeDirection
    \/ SetState
    \/ GetState

\* the decision engine under any sequence of calls of its methods
SpecQueries == InitEngine /\ [][NextQueries]_vars

\* the same calls, fed detections of every class and no vitals
SpecPerception == InitEngine /\ [][NextPerception]_vars

(***************************************************************************)
(* build_rust_ai_tree.  Its leaves hold fixed callables: the three         *)
(* conditions read the context, every action returns SUCCESS.  A tick of   *)
(* this tree in a context is the outcome of the root's tick in which every *)
(* leaf ticked returned what its callable returns in that context.         *)
(***************************************************************************)
\* build_rust_ai_tree: the tree it returns, each add_child done
RustAITree ==
    SelectorNode(<<SequenceNode(<<ConditionNode, ActionNode, ActionNode>>),
                   SequenceNode(<<ConditionNode, ActionNode, ActionNode>>),
                   SequenceNode(<<ConditionNode, ActionNode, ActionNode>>),
                   ActionNode>>)

\* mutant: a context without health counts as health 0
RustAILeaf_AbsentHealthIsZero(path, ctx) ==
    CASE path = <<0, 0>> -> ConditionStatus(Get(ctx, "health", 0) < 30)
      [] path = <<1, 0>> -> ConditionStatus(Len(Get(ctx, "threats", <<>>)) > 0)
      [] path = <<2, 0>> -> ConditionStatus(Len(Get(ctx, "resources", <<>>)) > 0)
      [] OTHER -> SUCCESS

\* build_rust_ai_tree: what the callable of the leaf at path returns for ctx
RustAILeaf(path, ctx) ==
    CASE path = <<0, 0>> -> ConditionStatus(Get(ctx, "health", 100) < 30)
      [] path = <<1, 0>> -> ConditionStatus(Len(Get(ctx, "threats", <<>>)) > 0)
      [] path = <<2, 0>> -> ConditionStatus(Len(Get(ctx, "resources", <<>>)) > 0)
      [] OTHER -> SUCCESS

\* the outcomes of root.tick(ctx) with the callables of build_rust_ai_tree
RustAITick(ctx) ==
    {r \in TickNode(root, <<>>) :
        \A j \in 1..Len(r.log) :
            IsLeaf(NodeAt(root, r.log[j].path)) =>
                r.log[j].status = RustAILeaf(r.log[j].path, ctx)}

(***************************************************************************)
(* The contexts the tree is ticked with: the decision, which               *)
(* process_frame always puts in, and health, threats and resources, each   *)
(* absent or present, health on either side of 30 and each list empty or   *)
(* not.                                                                    *)
(***************************************************************************)
ContextHealth == {29, 30}
ContextThreats == {<<>>, <<[class_name |-> "wolf", bbox |-> <<0, 0, 10, 10>>]>>}
ContextResources == {<<>>, <<[class_name |-> "ore", bbox |-> <<0, 0, 10, 10>>]>>}
Contexts ==
    [decision : {"decision"}]
    \cup [decision : {"decision"}, health : ContextHealth]
    \cup [decision : {"decision"}, threats : ContextThreats]
    \cup [decision : {"decision"}, resources : ContextResources]
    \cup [decision : {"decision"}, health : ContextHealth, threats : ContextThreats]
    \cup [decision : {"decision"}, health : ContextHealth,
          resources : ContextResources]
    \cup [decision : {"decision"}, threats : ContextThreats,
          resources : ContextResources]
    \cup [decision : {"decision"}, health : ContextHealth, threats : ContextThreats,
          resources : ContextResources]

\* build_rust_ai_tree(controllers)
InitRustAI ==
    /\ EngineConstructed
    /\ root = RustAITree
    /\ preCursor = CursorsOf(root)
    /\ op = [name |-> "init", path |-> <<>>]
    /\ log = <<>>
    /\ reticked = FALSE
    /\ ret = NONE
    /\ run = FreshRun(root)
    /\ tick_context = NONE

\* BehaviorTree.tick(context) on the tree of build_rust_ai_tree
TickRustAI ==
    \E ctx \in Contexts :
        \E r \in RustAITick(ctx) :
            /\ TickOutcome(r)
            /\ tick_context' = ctx
            /\ UNCHANGED enginevars

NextRustAI == TickRustAI \/ Reset

\* the tree of build_rust_ai_tree under any sequence of tick and reset calls
SpecRustAI == InitRustAI /\ [][NextRustAI]_vars

(***************************************************************************)
(* RustAIPlayer: the engine of __init__ (line 46), the tree of             *)
(* build_rust_ai_tree (line 47), and process_frame as one step.  Its       *)
(* vision_data holds the detections, the frame and the frame count; the    *)
(* model keeps the detections, up to two of the classes of ClassNames.     *)
(***************************************************************************)
FrameLists == UNION {[1..n -> Detections] : n \in 0..2}
FramePayloads == [detections : FrameLists]

\* mutant: the context is built with the health of a dying player
FrameContext_NoHealth(decision) ==
    [decision |-> decision, health |-> 0,
     threats |-> nearby_threats', resources |-> nearby_resources']

\* process_frame: the context handed to the tree, made after the engine's update
FrameContext(decision) ==
    [decision |-> decision, health |-> health',
     threats |-> nearby_threats', resources |-> nearby_resources']

\* RustAIPlayer.__init__
InitFrameLoop ==
    /\ EngineConstructed
    /\ root = RustAITree
    /\ preCursor = CursorsOf(root)
    /\ op = [name |-> "init", path |-> <<>>]
    /\ log = <<>>
    /\ reticked = FALSE
    /\ ret = NONE
    /\ run = FreshRun(root)
    /\ tick_context = NONE

\* RustAIPlayer.process_frame(): update_game_state, make_decision, tick
ProcessFrame ==
    \E vision_data \in FramePayloads :
        /\ update_tracker(vision_data)
        /\ returned' = make_decision'
        /\ called' = "process_frame"
        /\ previous' = NoDecision
        /\ argument' = NONE
        /\ \E r \in RustAITick(FrameContext(make_decision')) :
               /\ TickOutcome(r)
               /\ tick_context' = FrameContext(make_decision')

\* the frame loop of RustAIPlayer.run
SpecFrameLoop == InitFrameLoop /\ [][ProcessFrame]_vars

\* the trees of the model made of Sequence, Selector and leaf nodes only
CursorTrees ==
    {t \in InitialTrees : \A p \in Paths(t) : NodeAt(t, p).kind # "Parallel"}

InitCursorTrees ==
    /\ InitTree
    /\ root \in CursorTrees

NextCursorTrees == Tick \/ ResetRoot

\* such a tree under any sequence of tick and reset calls on its root
SpecCursorTrees == InitCursorTrees /\ [][NextCursorTrees]_vars

(***************************************************************************)
(* Vocabulary of the properties: what the last operation did.              *)
(***************************************************************************)
Node(p) == NodeAt(root, p)
Cursor(p) == Node(p).current_child_index
NumChildren(p) == Len(Node(p).children)
LastTick == op.name = "tick"
LastReset == op.name = "reset"
\* the node at p was ticked by the last operation
TickedNow(p) == p \in LogPaths(log)
\* what the node at p returned to its caller in the last operation
Returned(p) == LoggedStatus(log, p)
\* the ticks of the children of p made by the last operation, in order
ChildLog(p) == SelectSeq(log, LAMBDA e : IsChildPath(p, e.path))
\* the 0-based index of the child a log entry is about
ChildIndex(e) == e.path[Len(e.path)]
SequencePaths == {p \in Paths(root) : Node(p).kind = "Sequence"}
SelectorPaths == {p \in Paths(root) : Node(p).kind = "Selector"}
ParallelPaths == {p \in Paths(root) : Node(p).kind = "Parallel"}
\* the last operation tick started the node at p at its stored cursor: the
\* first child ticked is the one under the cursor and none below it is ticked
StartsAtCursor(p) ==
    /\ \A j \in 1..Len(ChildLog(p)) : ChildIndex(ChildLog(p)[j]) >= preCursor[p]
    /\ preCursor[p] < NumChildren(p) =>
          /\ ChildLog(p) # <<>>
          /\ ChildIndex(ChildLog(p)[1]) = preCursor[p]
\* the children ticked are consecutive: each tick is of the child after the last
Consecutive(p) ==
    \A j \in 1..(Len(ChildLog(p)) - 1) :
        ChildIndex(ChildLog(p)[j + 1]) = ChildIndex(ChildLog(p)[j]) + 1
\* how many of the children ticked in the last operation returned status
CountOf(p, status) ==
    Cardinality({j \in 1..Len(ChildLog(p)) : ChildLog(p)[j].status = status})

(***************************************************************************)
(* C1.  When the child at index i of a SequenceNode returns Running, that  *)
(* tick returns Running and leaves the cursor at i; the next tick ticks    *)
(* child i first and no child below i; if child i and every later child    *)
(* then return Success, the tick returns Success with the cursor at 0.     *)
(***************************************************************************)
C1_SequenceRunningContinuation ==
    \A p \in SequencePaths : TickedNow(p) =>
        LET cl == ChildLog(p)
        IN /\ \A j \in 1..Len(cl) : cl[j].status = RUNNING =>
                 /\ Returned(p) = RUNNING
                 /\ Node(p).status = RUNNING
                 /\ Cursor(p) = ChildIndex(cl[j])
                 /\ j = Len(cl)
           /\ StartsAtCursor(p)
           /\ (\A j \in 1..Len(cl) : cl[j].status = SUCCESS) =>
                 /\ Returned(p) = SUCCESS
                 /\ Cursor(p) = 0
                 /\ Len(cl) = NumChildren(p) - preCursor[p]

\* a Sequence parked at child i > 0 by an earlier tick is resumed at i and succeeds
C1_Witness ==
    \E p \in SequencePaths :
        /\ LastTick /\ TickedNow(p)
        /\ preCursor[p] > 0
        /\ preCursor[p] < NumChildren(p) - 1
        /\ ChildIndex(ChildLog(p)[1]) = preCursor[p]
        /\ Returned(p) = SUCCESS
        /\ Cursor(p) = 0

(***************************************************************************)
(* C2.  Whenever a child ticked by a SequenceNode returns Failure (from    *)
(* cursor 0 or from a parked cursor), that tick returns Failure, ticks no  *)
(* later child and leaves the cursor at 0, and a tick that finds the       *)
(* cursor at 0 starts at child 0.                                          *)
(***************************************************************************)
C2_SequenceFailureResets ==
    \A p \in SequencePaths : TickedNow(p) =>
        LET cl == ChildLog(p)
        IN /\ \A j \in 1..Len(cl) : cl[j].status = FAILURE =>
                 /\ Returned(p) = FAILURE
                 /\ Node(p).status = FAILURE
                 /\ j = Len(cl)
                 /\ Cursor(p) = 0
           /\ (preCursor[p] = 0 /\ NumChildren(p) > 0) =>
                 (cl # <<>> /\ ChildIndex(cl[1]) = 0)

\* a Sequence resumed at a parked cursor whose child then fails
C2_Witness ==
    \E p \in SequencePaths :
        /\ LastTick /\ TickedNow(p)
        /\ preCursor[p] > 0
        /\ ChildLog(p)[Len(ChildLog(p))].status = FAILURE
        /\ Returned(p) = FAILURE
        /\ Cursor(p) = 0

(***************************************************************************)
(* C3.  A SequenceNode driven from cursor 0 across ticks until it returns  *)
(* a non-Running status returns Success iff every child returned Success   *)
(* when it was last ticked in that run (and then every child was ticked);  *)
(* a child that returns Success advances the cursor and the next child is  *)
(* ticked in the same tick; after the final Success the cursor is 0.       *)
(***************************************************************************)
C3_SequenceSuccessIffAll ==
    \A p \in SequencePaths : TickedNow(p) =>
        LET cl == ChildLog(p)
        IN /\ Returned(p) # RUNNING =>
                 /\ Returned(p) = SUCCESS <=>
                       \A k \in 1..NumChildren(p) : run[p][k] \in {SUCCESS, NONE}
                 /\ Returned(p) = SUCCESS =>
                       /\ \A k \in 1..NumChildren(p) : run[p][k] = SUCCESS
                       /\ Cursor(p) = 0
           /\ Consecutive(p)
           /\ \A j \in 1..Len(cl) :
                 (cl[j].status = SUCCESS /\ ChildIndex(cl[j]) < NumChildren(p) - 1)
                    => j < Len(cl)

\* a Sequence of two or more children that succeeds within one tick from cursor 0
C3_Witness ==
    \E p \in SequencePaths :
        /\ LastTick /\ TickedNow(p)
        /\ preCursor[p] = 0
        /\ NumChildren(p) >= 2
        /\ Len(ChildLog(p)) = NumChildren(p)
        /\ Returned(p) = SUCCESS

(***************************************************************************)
(* C4.  A SelectorNode tick returns Success as soon as a ticked child      *)
(* returns Success (no later child ticked, cursor 0); it returns Failure   *)
(* only if every child from the starting cursor to the last returned       *)
(* Failure in that tick (cursor 0); a child Failure advances to the next   *)
(* child within the same tick.                                             *)
(***************************************************************************)
C4_SelectorSuccessFirst ==
    \A p \in SelectorPaths : TickedNow(p) =>
        LET cl == ChildLog(p)
        IN /\ \A j \in 1..Len(cl) : cl[j].status = SUCCESS =>
                 /\ Returned(p) = SUCCESS
                 /\ j = Len(cl)
                 /\ Cursor(p) = 0
           /\ Returned(p) = FAILURE =>
                 /\ \A j \in 1..Len(cl) : cl[j].status = FAILURE
                 /\ Len(cl) = NumChildren(p) - preCursor[p]
                 /\ StartsAtCursor(p)
                 /\ Cursor(p) = 0
           /\ Consecutive(p)
           /\ \A j \in 1..Len(cl) :
                 (cl[j].status = FAILURE /\ ChildIndex(cl[j]) < NumChildren(p) - 1)
                    => j < Len(cl)

\* a Selector whose first child fails and whose second succeeds in the same tick
C4_Witness ==
    \E p \in SelectorPaths :
        /\ LastTick /\ TickedNow(p)
        /\ NumChildren(p) >= 3
        /\ Len(ChildLog(p)) = 2
        /\ ChildLog(p)[1].status = FAILURE
        /\ ChildLog(p)[2].status = SUCCESS
        /\ Returned(p) = SUCCESS

(***************************************************************************)
(* C5.  When the child at index i of a SelectorNode returns Running, the   *)
(* tick returns Running with the cursor left at i, and every following     *)
(* tick of the selector ticks child i first and no child below i, until    *)
(* that child returns a non-Running status or reset() is called: the       *)
(* cursor of a selector moves only when it is ticked or reset.             *)
(***************************************************************************)
C5_SelectorRunningParks ==
    \A p \in SelectorPaths :
        /\ TickedNow(p) =>
              LET cl == ChildLog(p)
              IN /\ \A j \in 1..Len(cl) : cl[j].status = RUNNING =>
                       /\ Returned(p) = RUNNING
                       /\ Node(p).status = RUNNING
                       /\ Cursor(p) = ChildIndex(cl[j])
                       /\ j = Len(cl)
                 /\ StartsAtCursor(p)
        /\ (~TickedNow(p) /\ ~(LastReset /\ IsPrefix(op.path, p))) =>
              Cursor(p) = preCursor[p]

\* a Selector parked at child i > 0 whose child i returns Running again
C5_Witness ==
    \E p \in SelectorPaths :
        /\ LastTick /\ TickedNow(p)
        /\ preCursor[p] > 0
        /\ Len(ChildLog(p)) = 1
        /\ ChildIndex(ChildLog(p)[1]) = preCursor[p]
        /\ Returned(p) = RUNNING
        /\ Cursor(p) = preCursor[p]

(***************************************************************************)
(* C6.  A ParallelNode tick returns Success if the number of children that *)
(* returned Success in this tick is >= success_threshold; otherwise        *)
(* Failure if (number of children - number that returned Failure in this   *)
(* tick) < success_threshold; otherwise Running.  Only the statuses        *)
(* returned in this tick count.                                            *)
(***************************************************************************)
C6_ParallelThreshold ==
    \A p \in ParallelPaths : TickedNow(p) =>
        LET th == Node(p).success_threshold
        IN /\ Returned(p) =
                 (IF CountOf(p, SUCCESS) >= th THEN SUCCESS
                  ELSE IF NumChildren(p) - CountOf(p, FAILURE) < th THEN FAILURE
                  ELSE RUNNING)
           /\ Node(p).status = Returned(p)

\* three children, threshold 2, statuses [Failure, Failure, Running]: Failure
C6_Witness ==
    \E p \in ParallelPaths :
        /\ LastTick /\ TickedNow(p)
        /\ NumChildren(p) = 3
        /\ Node(p).success_threshold = 2
        /\ Len(ChildLog(p)) = 3
        /\ ChildLog(p)[1].status = FAILURE
        /\ ChildLog(p)[2].status = FAILURE
        /\ ChildLog(p)[3].status = RUNNING
        /\ Returned(p) = FAILURE

(***************************************************************************)
(* C7.  Every tick of a ParallelNode ticks each of its children exactly    *)
(* once, in list order, with no short-circuit.                             *)
(***************************************************************************)
C7_ParallelTicksAll ==
    \A p \in ParallelPaths : TickedNow(p) =>
        /\ Len(ChildLog(p)) = NumChildren(p)
        /\ \A j \in 1..Len(ChildLog(p)) : ChildIndex(ChildLog(p)[j]) = j - 1

\* the threshold is reached by the first child and the later ones are still
\* ticked, among them one that had already succeeded on an earlier tick
C7_Witness ==
    \E p \in ParallelPaths :
        /\ LastTick /\ TickedNow(p)
        /\ NumChildren(p) >= 2
        /\ Node(p).success_threshold = 1
        /\ ChildLog(p)[1].status = SUCCESS
        /\ Len(ChildLog(p)) = NumChildren(p)
        /\ reticked
        /\ Node(p).status = SUCCESS

RECURSIVE Constructed(_)
\* the node the constructors build for the shape of `node`
Constructed(node) ==
    LET cs == [k \in 1..Len(node.children) |-> Constructed(node.children[k])]
    IN CASE node.kind = "Action" -> ActionNode
         [] node.kind = "Condition" -> ConditionNode
         [] node.kind = "Sequence" -> SequenceNode(cs)
         [] node.kind = "Selector" -> SelectorNode(cs)
         [] node.kind = "Parallel" -> ParallelNode(cs, node.success_threshold)

(***************************************************************************)
(* C8.  From any reachable state, reset() on a composite sets its status   *)
(* to Failure and its cursor to 0 and does the same for every descendant,  *)
(* so the subtree is back in its construction-time state; reset ticks no   *)
(* leaf.                                                                   *)
(***************************************************************************)
C8_ResetRestoresSubtree ==
    LastReset =>
        /\ \A q \in Paths(root) : IsPrefix(op.path, q) =>
              /\ Node(q).status = FAILURE
              /\ Node(q).current_child_index = 0
        /\ Node(op.path) = Constructed(Node(op.path))
        /\ log = <<>>

\* reset of a node parked on a Running child that is itself parked
C8_Witness ==
    /\ LastReset
    /\ op.path \in CursorPaths(root)
    /\ preCursor[op.path] > 0
    /\ \E q \in CursorPaths(root) :
          /\ IsPrefix(op.path, q) /\ q # op.path
          /\ preCursor[q] > 0
          /\ Cursor(q) = 0

(***************************************************************************)
(* C9.  In every state reachable by tick() and reset() calls, the cursor   *)
(* of every Sequence and Selector node is within [0, len(children)].       *)
(***************************************************************************)
C9_CursorInRange ==
    \A p \in CursorPaths(root) :
        Cursor(p) >= 0 /\ Cursor(p) <= NumChildren(p)

\* a node parked on its last child, the largest cursor a tick leaves behind
C9_Witness ==
    \E p \in CursorPaths(root) :
        /\ LastTick
        /\ NumChildren(p) >= 2
        /\ Cursor(p) = NumChildren(p) - 1

(***************************************************************************)
(* C10.  Whenever health < 20, make_decision() returns action heal with    *)
(* priority Critical and a context carrying the current health, whatever   *)
(* nearby_threats, hunger, nearby_resources and inventory are.             *)
(***************************************************************************)
C10_HealPreempts ==
    (called = "make_decision" /\ health < 20) =>
        /\ returned.action = "heal"
        /\ returned.priority = CRITICAL
        /\ returned.context = [health |-> health]

\* heal is decided with a threat and a resource in sight and hunger low
C10_Witness ==
    /\ called = "make_decision"
    /\ health < 20
    /\ nearby_threats # <<>>
    /\ nearby_resources # <<>>
    /\ hunger < 30
    /\ returned.action = "heal"

(***************************************************************************)
(* C11.  With health >= 20 and nearby_threats non-empty, make_decision()   *)
(* returns flee with priority Critical if health < 50 and combat with      *)
(* priority High otherwise; the context threat is the first entry of       *)
(* nearby_threats, which is the first detection of a threat class in the   *)
(* detections as they were received, whatever hunger, the resources and    *)
(* the other threats are.                                                  *)
(***************************************************************************)
C11_ThreatRule ==
    (called = "make_decision" /\ health >= 20 /\ nearby_threats # <<>>) =>
        /\ returned.action = (IF health < 50 THEN "flee" ELSE "combat")
        /\ returned.priority = (IF health < 50 THEN CRITICAL ELSE HIGH)
        /\ returned.context = [threat |-> nearby_threats[1]]
        /\ \E i \in 1..Len(received) :
               /\ received[i] = returned.context.threat
               /\ received[i].class_name \in {"player", "bear", "wolf", "scientist"}
               /\ \A j \in 1..(i - 1) :
                      received[j].class_name \notin {"player", "bear", "wolf", "scientist"}

\* combat is decided against the first of two different threats, hunger low
C11_Witness ==
    /\ called = "make_decision"
    /\ health >= 50
    /\ hunger < 30
    /\ Len(nearby_threats) = 2
    /\ nearby_threats[1] # nearby_threats[2]
    /\ returned.action = "combat"
    /\ returned.context.threat = nearby_threats[1]

(***************************************************************************)
(* Vocabulary of the engine's properties.                                  *)
(***************************************************************************)
\* the indices of seq whose detection has a class in classes
IndicesOf(seq, classes) == {i \in 1..Len(seq) : seq[i].class_name \in classes}

\* list is the sub-sequence, in order, of the entries of seq with a class in classes
IsSubsequenceOf(list, seq, classes) ==
    /\ Len(list) = Cardinality(IndicesOf(seq, classes))
    /\ \A i \in IndicesOf(seq, classes) :
           list[Cardinality({j \in IndicesOf(seq, classes) : j <= i})] = seq[i]

(***************************************************************************)
(* C12.  After any sequence of update_game_state calls, nearby_threats is  *)
(* exactly the sub-sequence, in received order, of the latest call's       *)
(* detections whose class is player, bear, wolf or scientist, and          *)
(* nearby_resources likewise for tree, stone, ore, hemp and crate; a       *)
(* detection of any other class is in neither list and nothing of an       *)
(* earlier call remains.                                                   *)
(***************************************************************************)
C12_ListsPartitionLatest ==
    /\ IsSubsequenceOf(nearby_threats, received,
                       {"player", "bear", "wolf", "scientist"})
    /\ IsSubsequenceOf(nearby_resources, received,
                       {"tree", "stone", "ore", "hemp", "crate"})

\* a call with an unknown class and a threat, after a call that left a resource
C12_Witness ==
    /\ called = "update_game_state"
    /\ Len(received) = 2
    /\ received[1].class_name = "deer"
    /\ received[2].class_name = "scientist"
    /\ nearby_threats = <<received[2]>>
    /\ nearby_resources = <<>>

(***************************************************************************)
(* C13.  update_game_state overwrites health (resp. hunger) with the       *)
(* payload's value when the payload holds the key and leaves it at its     *)
(* previous value when it does not: at any time health (resp. hunger) is   *)
(* the value of the most recent payload that held it, or the initial 100   *)
(* if none did.                                                            *)
(***************************************************************************)
C13_VitalsCarried ==
    /\ health = carried.health
    /\ hunger = carried.hunger

\* health was overwritten by a payload; hunger, which no payload held, is still 100
C13_Witness ==
    /\ called = "update_game_state"
    /\ health = 19
    /\ hunger = 100
    /\ carried = [health |-> 19, hunger |-> 100]

(***************************************************************************)
(* C15.  make_decision() returns find_food, with priority High and a       *)
(* context carrying the current hunger, if and only if health >= 20,       *)
(* nearby_threats is empty and hunger < 30.                                *)
(***************************************************************************)
C15_FindFoodIff ==
    called = "make_decision" =>
        /\ returned.action = "find_food"
               <=> (health >= 20 /\ nearby_threats = <<>> /\ hunger < 30)
        /\ returned.action = "find_food" =>
               /\ returned.priority = HIGH
               /\ returned.context = [hunger |-> hunger]

\* find_food is decided at health 20 with a resource in sight
C15_Witness ==
    /\ called = "make_decision"
    /\ health = 20
    /\ hunger = 29
    /\ nearby_threats = <<>>
    /\ nearby_resources # <<>>
    /\ returned.action = "find_food"

\* the rank of a resource class under ore > stone > tree > hemp > crate (1 is best)
Rank(class_name) ==
    CASE class_name = "ore" -> 1
      [] class_name = "stone" -> 2
      [] class_name = "tree" -> 3
      [] class_name = "hemp" -> 4
      [] class_name = "crate" -> 5

(***************************************************************************)
(* C14.  At the resource rule (health >= 20, no threats, hunger >= 30,     *)
(* nearby_resources non-empty) make_decision() returns gather_resource     *)
(* with priority Medium, and the resource in the context is the            *)
(* first-listed entry of the highest-ranked class present under            *)
(* ore > stone > tree > hemp > crate, wherever in the list it stands.      *)
(***************************************************************************)
C14_BestResource ==
    (/\ called = "make_decision"
     /\ health >= 20
     /\ nearby_threats = <<>>
     /\ hunger >= 30
     /\ nearby_resources # <<>>) =>
        /\ returned.action = "gather_resource"
        /\ returned.priority = MEDIUM
        /\ \E j \in 1..Len(nearby_resources) :
               /\ returned.context = [resource |-> nearby_resources[j]]
               /\ \A k \in 1..Len(nearby_resources) :
                      Rank(nearby_resources[k].class_name)
                          >= Rank(nearby_resources[j].class_name)
               /\ \A k \in 1..(j - 1) :
                      nearby_resources[k].class_name
                          # nearby_resources[j].class_name

\* of the resources [tree, ore] the ore is chosen
C14_Witness ==
    /\ called = "make_decision"
    /\ Len(nearby_resources) = 2
    /\ nearby_resources[1].class_name = "tree"
    /\ nearby_resources[2].class_name = "ore"
    /\ nearby_threats = <<>>
    /\ returned.action = "gather_resource"
    /\ returned.context.resource = nearby_resources[2]

(***************************************************************************)
(* C16.  When no earlier rule matches (health >= 20, no threats,           *)
(* hunger >= 30, no resources) make_decision() returns explore with        *)
(* priority Low and goal find_resources if the inventory holds fewer than  *)
(* 5 entries, and explore with priority Minimal and goal                   *)
(* general_exploration otherwise.                                          *)
(***************************************************************************)
C16_ExploreFallback ==
    (/\ called = "make_decision"
     /\ health >= 20
     /\ nearby_threats = <<>>
     /\ hunger >= 30
     /\ nearby_resources = <<>>) =>
        returned = IF Len(inventory) < 5
                   THEN [action |-> "explore", priority |-> LOW,
                         context |-> [goal |-> "find_resources"]]
                   ELSE [action |-> "explore", priority |-> MINIMAL,
                         context |-> [goal |-> "general_exploration"]]

\* with exactly five entries in the inventory the exploration is the Minimal one
C16_Witness ==
    /\ called = "make_decision"
    /\ health >= 20
    /\ nearby_threats = <<>>
    /\ hunger >= 30
    /\ nearby_resources = <<>>
    /\ Len(inventory) = 5
    /\ returned.priority = MINIMAL
    /\ returned.context.goal = "general_exploration"

\* the Decisions make_decision can return
Decisions ==
    [action : {"heal", "flee", "combat", "find_food", "gather_resource", "explore"},
     priority : {CRITICAL, HIGH, MEDIUM, LOW, MINIMAL}]

(***************************************************************************)
(* C17.  make_decision() is a pure function of the tracker: a call returns *)
(* one Decision and changes none of health, hunger, inventory,             *)
(* nearby_threats, nearby_resources and current_state, and a call that     *)
(* follows another call with no update_game_state in between returns the   *)
(* same action, priority and context.                                      *)
(***************************************************************************)
C17_MakeDecisionPure ==
    [][called' = "make_decision" =>
          /\ UNCHANGED <<health, hunger, inventory, nearby_threats,
                         nearby_resources, current_state>>
          /\ [action |-> returned'.action, priority |-> returned'.priority]
                 \in Decisions
          /\ called = "make_decision" => returned' = returned]_vars

\* combat has been decided twice in a row against the same threat
C17_Witness ==
    /\ called = "make_decision"
    /\ previous # NoDecision
    /\ previous = returned
    /\ returned.action = "combat"
    /\ nearby_threats # <<>>

(***************************************************************************)
(* C18.  current_state is changed only by set_state: it starts as Idle,    *)
(* get_state returns the value handed to the most recent set_state call,   *)
(* and no sequence of update_game_state, make_decision,                    *)
(* evaluate_threat_level, should_engage_combat or calculate_flee_direction *)
(* calls changes it, whatever the decisions say.                           *)
(***************************************************************************)
C18_StateOnlySet ==
    /\ current_state = last_set
    /\ called = "__init__" => current_state = "idle"
    /\ called = "get_state" => returned.value = last_set

\* combat is decided while the state is the fleeing set earlier
C18_Witness ==
    /\ called = "make_decision"
    /\ returned.action = "combat"
    /\ last_set = "fleeing"
    /\ current_state = "fleeing"

(***************************************************************************)
(* C19.  should_engage_combat(threat) returns false whenever health < 40,  *)
(* returns false whenever the threat level is above 0.8 and health < 70,   *)
(* and returns true only when health > 60 and the threat level is below    *)
(* 0.7; every remaining combination (health 40..60 with any threat level,  *)
(* or a threat level of 0.7 or more with health above 60) yields false.    *)
(***************************************************************************)
C19_EngageTable ==
    called = "should_engage_combat" =>
        LET threat_level == evaluate_threat_level(argument)
        IN /\ health < 40 => returned.value = FALSE
           /\ (threat_level > 800000 /\ health < 70) => returned.value = FALSE
           /\ returned.value = TRUE => (health > 60 /\ threat_level < 700000)
           /\ (health >= 40 /\ health <= 60) => returned.value = FALSE
           /\ (health > 60 /\ threat_level >= 700000) => returned.value = FALSE
           /\ returned.value \in BOOLEAN

\* a boar is engaged at health 61
C19_Witness ==
    /\ called = "should_engage_combat"
    /\ health = 61
    /\ argument.class_name = "boar"
    /\ argument.bbox = <<0, 0, 100, 100>>
    /\ returned.value = TRUE

(***************************************************************************)
(* C20.  evaluate_threat_level returns a value in [0.0, 1.0] for every     *)
(* class name, in the rating table or not, and every bounding box with     *)
(* non-negative coordinates, the value being                               *)
(* min(1, base * (1 + min(1, width * height / 10000))).                    *)
(***************************************************************************)
C20_ThreatLevelInRange ==
    (/\ called = "evaluate_threat_level"
     /\ \A i \in 1..4 : argument.bbox[i] >= 0) =>
        LET base == IF argument.class_name \in DOMAIN threat_ratings
                    THEN threat_ratings[argument.class_name] ELSE 50
            width == argument.bbox[3] - argument.bbox[1]
            height == argument.bbox[4] - argument.bbox[2]
        IN /\ returned.value >= 0
           /\ returned.value <= 1000000
           /\ returned.value
                  = min(1000000, base * (10000 + min(10000, width * height)))

(***************************************************************************)
(* C21.  Building a Sequence, Selector or Parallel composite with zero     *)
(* children is a construction-time configuration error, so that no tree    *)
(* holds such a composite and none is ever ticked: a composite that is     *)
(* ticked has at least one child.                                          *)
(***************************************************************************)
C21_NoEmptyCompositeTicked ==
    \A p \in CompositePaths(root) : TickedNow(p) => NumChildren(p) > 0

(***************************************************************************)
(* C22.  A Sequence or Selector parked on a Running child stays parked at  *)
(* the same cursor through every tick in which that child returns Running  *)
(* again; its cursor moves only when the child under the cursor returns    *)
(* Success or Failure or when reset() is called on it or on an ancestor,   *)
(* and after reset() the cursor is 0, so that the next tick, which starts  *)
(* at the stored cursor, ticks child 0 first.                              *)
(***************************************************************************)
C22_ParkedUntilDoneOrReset ==
    \A p \in CursorPaths(root) :
        /\ (TickedNow(p) /\ ChildLog(p) # <<>> /\ ChildLog(p)[1].status = RUNNING) =>
              /\ ChildIndex(ChildLog(p)[1]) = preCursor[p]
              /\ Len(ChildLog(p)) = 1
              /\ Returned(p) = RUNNING
              /\ Cursor(p) = preCursor[p]
        /\ Cursor(p) # preCursor[p] =>
              \/ LastReset /\ IsPrefix(op.path, p)
              \/ /\ LastTick /\ TickedNow(p)
                 /\ ChildLog(p) # <<>>
                 /\ ChildIndex(ChildLog(p)[1]) = preCursor[p]
                 /\ ChildLog(p)[1].status \in {SUCCESS, FAILURE}
        /\ (LastReset /\ IsPrefix(op.path, p)) => Cursor(p) = 0
        /\ TickedNow(p) => StartsAtCursor(p)

\* a nested Sequence parked at child i > 0 is ticked, child i returns Running
\* again and the cursor is still i
C22_Witness ==
    \E p \in SequencePaths :
        /\ p # <<>>
        /\ LastTick /\ TickedNow(p)
        /\ preCursor[p] > 0
        /\ Len(ChildLog(p)) = 1
        /\ ChildIndex(ChildLog(p)[1]) = preCursor[p]
        /\ ChildLog(p)[1].status = RUNNING
        /\ Returned(p) = RUNNING
        /\ Cursor(p) = preCursor[p]

(***************************************************************************)
(* C23.  Every leaf operation returning, every BehaviorTree.tick on a      *)
(* finite tree terminates: the tick has an outcome in every reachable      *)
(* state and returns a status; within it each Sequence and Selector ticks  *)
(* its children in strictly increasing index order starting at its stored  *)
(* cursor and each Parallel ticks each child once, so every node is ticked *)
(* at most once and the tick makes at most as many node ticks as the tree  *)
(* has nodes.                                                              *)
(***************************************************************************)
C23_TickTerminates ==
    /\ TickNode(root, <<>>) # {}
    /\ LastTick =>
          /\ ret \in NodeStatus
          /\ \A j, k \in 1..Len(log) : log[j].path = log[k].path => j = k
          /\ Len(log) <= Cardinality(Paths(root))
          /\ \A p \in CursorPaths(root) : TickedNow(p) =>
                 /\ StartsAtCursor(p)
                 /\ \A j \in 1..(Len(ChildLog(p)) - 1) :
                        ChildIndex(ChildLog(p)[j]) < ChildIndex(ChildLog(p)[j + 1])
          /\ \A p \in ParallelPaths : TickedNow(p) =>
                 \A c \in 0..(NumChildren(p) - 1) :
                     Cardinality({j \in 1..Len(ChildLog(p)) :
                                     ChildIndex(ChildLog(p)[j]) = c}) = 1

\* one tick of a three-level tree ticks every one of its nodes, each once
C23_Witness ==
    /\ LastTick
    /\ \E p \in Paths(root) : Len(p) = 3
    /\ Len(log) = Cardinality(Paths(root))
    /\ \A p \in Paths(root) : TickedNow(p)

\* the actions the last tick ran: the paths of the ActionNodes it ticked
ActionsRun == {p \in LogPaths(log) : Node(p).kind = "Action"}

\* the 0-based index, under the root of build_rust_ai_tree, of the branch that
\* goes with a context: Survival, Combat, Gathering, Explore
BranchOf(ctx) ==
    IF (IF "health" \in DOMAIN ctx THEN ctx.health ELSE 100) < 30 THEN 0
    ELSE IF "threats" \in DOMAIN ctx /\ ctx.threats # <<>> THEN 1
    ELSE IF "resources" \in DOMAIN ctx /\ ctx.resources # <<>> THEN 2
    ELSE 3

(***************************************************************************)
(* C24.  For the tree built by build_rust_ai_tree each tick runs the       *)
(* actions of exactly one branch, chosen in fixed order: Survival (Find    *)
(* Cover, Heal) iff the context health is below 30, an absent health       *)
(* counting as 100; otherwise Combat (Aim, Shoot) iff the context threats  *)
(* are non-empty, absent threats counting as empty; otherwise Gathering    *)
(* iff the context resources are non-empty; otherwise Explore.  Every tick *)
(* returns Success and leaves every cursor at 0.                           *)
(***************************************************************************)
C24_RustAITreeBranch ==
    LastTick =>
        /\ ActionsRun = (IF BranchOf(tick_context) = 3 THEN {<<3>>}
                         ELSE {<<BranchOf(tick_context), 1>>,
                               <<BranchOf(tick_context), 2>>})
        /\ ret = SUCCESS
        /\ \A p \in CursorPaths(root) : Cursor(p) = 0

\* a context without health and with a threat and a resource: Aim and Shoot run
C24_Witness ==
    /\ LastTick
    /\ "health" \notin DOMAIN tick_context
    /\ "threats" \in DOMAIN tick_context
    /\ tick_context.threats # <<>>
    /\ "resources" \in DOMAIN tick_context
    /\ tick_context.resources # <<>>
    /\ ActionsRun = {<<1, 1>>, <<1, 2>>}
    /\ ret = SUCCESS

\* the path of the parent of the node at p
Parent(p) == SubSeq(p, 1, Len(p) - 1)

(***************************************************************************)
(* C25.  In a tree made only of Sequence, Selector and leaf nodes, in      *)
(* every state reachable by tick() and reset() calls on the root, a        *)
(* composite whose cursor is not 0 has status Running, and its parent, if  *)
(* it has one, has status Running with its cursor on that composite; so    *)
(* the parked cursors lie on one path from the root and no stale cursor    *)
(* is left outside it.                                                     *)
(***************************************************************************)
C25_ParkedCursorsOnOnePath ==
    /\ \A p \in CursorPaths(root) : Cursor(p) # 0 =>
           /\ Node(p).status = RUNNING
           /\ p # <<>> =>
                  /\ Node(Parent(p)).status = RUNNING
                  /\ Cursor(Parent(p)) = p[Len(p)]
    /\ \A p, q \in CursorPaths(root) :
           (Cursor(p) # 0 /\ Cursor(q) # 0) => (IsPrefix(p, q) \/ IsPrefix(q, p))

\* the root and its second child are both parked at their second child
C25_Witness ==
    /\ LastTick
    /\ Cursor(<<>>) = 1
    /\ <<1>> \in CursorPaths(root)
    /\ Cursor(<<1>>) = 1
    /\ <<0>> \in CursorPaths(root)
    /\ Node(<<1>>).status = RUNNING

\* the area of the bounding box of a detection, as evaluate_threat_level takes it
Area(detection) ==
    (detection.bbox[3] - detection.bbox[1]) * (detection.bbox[4] - detection.bbox[2])

(***************************************************************************)
(* C26.  should_engage_combat returns false at every health value for      *)
(* every detection that update_game_state classifies as a threat (class    *)
(* player, bear, wolf or scientist) and whose bounding box has a           *)
(* non-negative area, because evaluate_threat_level is never below 0.7     *)
(* for those classes; hence every combat decision of make_decision is made *)
(* on such a threat, for which should_engage_combat is false.              *)
(***************************************************************************)
C26_NeverEngagesThreats ==
    /\ (/\ called \in {"should_engage_combat", "evaluate_threat_level"}
        /\ argument.class_name \in {"player", "bear", "wolf", "scientist"}
        /\ Area(argument) >= 0) =>
           /\ evaluate_threat_level(argument) >= 700000
           /\ called = "should_engage_combat" => returned.value = FALSE
           /\ called = "evaluate_threat_level" => returned.value >= 700000
    /\ (/\ called = "make_decision"
        /\ returned.action = "combat"
        /\ Area(returned.context.threat) >= 0) =>
           /\ returned.context.threat.class_name
                  \in {"player", "bear", "wolf", "scientist"}
           /\ should_engage_combat(returned.context.threat) = FALSE

\* a wolf with an empty box, the lowest threat level of a threat class, is not
\* engaged at full health
C26_Witness ==
    /\ called = "should_engage_combat"
    /\ health = 100
    /\ argument.class_name = "wolf"
    /\ argument.bbox = <<0, 0, 0, 0>>
    /\ evaluate_threat_level(argument) = 700000
    /\ returned.value = FALSE

(***************************************************************************)
(* C27.  In the frame loop of RustAIPlayer the perception handed to        *)
(* update_game_state never carries health or hunger, so over any number    *)
(* of frames the tracker's health and hunger stay at 100; consequently     *)
(* every decision is combat (High), gather_resource (Medium) or explore    *)
(* (Low), never heal, flee or find_food, and the Survival branch of the    *)
(* tree never runs.                                                        *)
(***************************************************************************)
C27_FrameLoopVitalsStay ==
    /\ health = 100
    /\ hunger = 100
    /\ called = "process_frame" =>
          /\ <<returned.action, returned.priority>>
                 \in {<<"combat", HIGH>>, <<"gather_resource", MEDIUM>>,
                      <<"explore", LOW>>}
          /\ tick_context.health = 100
          /\ Returned(<<0, 0>>) = FAILURE
          /\ Returned(<<0>>) = FAILURE
          /\ ActionsRun \cap {<<0, 1>>, <<0, 2>>} = {}
          /\ Node(<<0, 1>>).status = FAILURE
          /\ Node(<<0, 2>>).status = FAILURE

\* a frame with a threat, after a frame that had the tree gather: combat is
\* decided and the Combat branch runs
C27_Witness ==
    /\ called = "process_frame"
    /\ nearby_threats # <<>>
    /\ returned.action = "combat"
    /\ ActionsRun = {<<1, 1>>, <<1, 2>>}
    /\ Node(<<2, 2>>).status = SUCCESS
    /\ health = 100

(***************************************************************************)
(* C28.  No operation of DecisionEngine changes the inventory: starting    *)
(* from a freshly constructed engine, after any sequence of                *)
(* update_game_state, set_state and make_decision calls (and of the other  *)
(* methods) the inventory is still empty, so make_decision never returns   *)
(* the explore decision with priority Minimal.                             *)
(***************************************************************************)
C28_InventoryStaysEmpty ==
    /\ inventory = <<>>
    /\ called = "make_decision" =>
          ~(returned.action = "explore" /\ returned.priority = MINIMAL)

\* after a set_state and updates, the exploration decided is the Low one
C28_Witness ==
    /\ called = "make_decision"
    /\ last_set = "looting"
    /\ health = 70
    /\ inventory = <<>>
    /\ returned.action = "explore"
    /\ returned.priority = LOW

(***************************************************************************)
(* C29.  A ParallelNode tick returns Running only if at least one child    *)
(* returned Running in that tick; when every child returns Success or      *)
(* Failure the tick returns Success or Failure, never Running.             *)
(***************************************************************************)
C29_ParallelRunningNeedsRunning ==
    \A p \in ParallelPaths : TickedNow(p) =>
        /\ Returned(p) = RUNNING => CountOf(p, RUNNING) >= 1
        /\ CountOf(p, RUNNING) = 0 => Returned(p) \in {SUCCESS, FAILURE}

\* threshold 2 and children returning [Success, Failure, Running]: Running
C29_Witness ==
    \E p \in ParallelPaths :
        /\ LastTick /\ TickedNow(p)
        /\ Node(p).success_threshold = 2
        /\ Len(ChildLog(p)) = 3
        /\ ChildLog(p)[1].status = SUCCESS
        /\ ChildLog(p)[2].status = FAILURE
        /\ ChildLog(p)[3].status = RUNNING
        /\ Returned(p) = RUNNING

(***************************************************************************)
(* C30.  A ParallelNode whose success_threshold exceeds its number of      *)
(* children returns Failure on every tick whatever its children return,    *)
(* all Running included, and one whose success_threshold is <= 0 returns   *)
(* Success on every tick, also with zero children; in both cases every     *)
(* child is still ticked.                                                  *)
(***************************************************************************)
C30_ParallelDegenerateThreshold ==
    \A p \in ParallelPaths : TickedNow(p) =>
        LET th == Node(p).success_threshold
        IN /\ th > NumChildren(p) => Returned(p) = FAILURE
           /\ th <= 0 => Returned(p) = SUCCESS
           /\ (th > NumChildren(p) \/ th <= 0) =>
                 /\ Len(ChildLog(p)) = NumChildren(p)
                 /\ \A c \in 0..(NumChildren(p) - 1) :
                        \E j \in 1..Len(ChildLog(p)) : ChildIndex(ChildLog(p)[j]) = c

\* two children, threshold 3, both children Running: Failure
C30_Witness ==
    \E p \in ParallelPaths :
        /\ LastTick /\ TickedNow(p)
        /\ NumChildren(p) = 2
        /\ Node(p).success_threshold = 3
        /\ Len(ChildLog(p)) = 2
        /\ ChildLog(p)[1].status = RUNNING
        /\ ChildLog(p)[2].status = RUNNING
        /\ Returned(p) = FAILURE

(***************************************************************************)
(* The rules of make_decision taken one by one, in the order of the        *)
(* source: the condition of each `if` as it stands on its own (without the *)
(* negations of the ones above it) and the Decision its body constructs.   *)
(* The body of the second `if` constructs flee or combat by the health;    *)
(* the final return has no condition.                                      *)
(***************************************************************************)
Rules ==
    <<[condition |-> health < 20,
       decision |-> Decision("heal", CRITICAL, [health |-> health])],
      [condition |-> nearby_threats # <<>>,
       decision |-> IF nearby_threats = <<>> THEN NoDecision
                    ELSE IF health < 50
                    THEN Decision("flee", CRITICAL, [threat |-> nearby_threats[1]])
                    ELSE Decision("combat", HIGH, [threat |-> nearby_threats[1]])],
      [condition |-> hunger < 30,
       decision |-> Decision("find_food", HIGH, [hunger |-> hunger])],
      [condition |-> nearby_resources # <<>>,
       decision |-> IF nearby_resources = <<>> THEN NoDecision
                    ELSE Decision("gather_resource", MEDIUM,
                                  [resource |-> select_best_resource])],
      [condition |-> Len(inventory) < 5,
       decision |-> Decision("explore", LOW, [goal |-> "find_resources"])],
      [condition |-> TRUE,
       decision |-> Decision("explore", MINIMAL, [goal |-> "general_exploration"])]>>

\* the rules whose condition holds in the current state
Applicable == {i \in DOMAIN Rules : Rules[i].condition}

\* max-priority selection: the applicable rule of the greatest priority,
\* the earliest one in rule order among equals
MaxPriorityRule ==
    CHOOSE i \in Applicable :
        \A j \in Applicable :
            \/ Rules[i].decision.priority > Rules[j].decision.priority
            \/ Rules[i].decision.priority = Rules[j].decision.priority /\ i <= j

(***************************************************************************)
(* C31.  In every tracker state the Decision make_decision() returns has a *)
(* priority greater than or equal to the priority of every rule whose      *)
(* condition holds, and it is the Decision that max-priority selection     *)
(* (ties broken by rule order) picks: first-match and max-priority give    *)
(* the same Decision.                                                      *)
(***************************************************************************)
C31_FirstMatchIsMaxPriority ==
    called = "make_decision" =>
        /\ \A i \in Applicable : returned.priority >= Rules[i].decision.priority
        /\ returned = Rules[MaxPriorityRule].decision

\* heal and flee tie at Critical while three lower rules hold as well: heal,
\* the earlier of the two, is returned
C31_Witness ==
    /\ called = "make_decision"
    /\ Applicable = 1..6
    /\ health < 20
    /\ Rules[2].decision.action = "flee"
    /\ Rules[2].decision.priority = returned.priority
    /\ returned.action = "heal"

====
